---- MODULE Spec2Model ----
(***************************************************************************)
(* Readers/writer synchronisation of h5pySWMR (h5pyswmr/locking.py): the   *)
(* @reader and @writer decorators, the redis-based advisory lock           *)
(* (acquire_lock, release_lock, redis_lock) and the redis keys of one      *)
(* resource R = self.file.                                                 *)
(*                                                                         *)
(* Every participant is one OS process running one decorated call.  Each   *)
(* redis command is one step; steps of different processes interleave      *)
(* freely.  An exception (LockException on an acquire timeout, SystemExit  *)
(* raised by the SIGTERM handler of handle_exit) is raised at the          *)
(* statement the process is at and unwinds through the enclosing `with`    *)
(* scopes and the `finally` block, one redis command per step.             *)
(***************************************************************************)
EXTENDS Integers, FiniteSets, Sequences, TLC

\* Bounds of the model: the number of worker processes, and the number of
\* them that may see an acquire time out / be terminated by SIGTERM in one run.
MaxWorkers == 4
MaxTimeouts == 1
MaxKills == 1
\* the number of lock timeouts that run down in one run
MaxTicks == 1

\* test_locks.py:93-99 -- workers 0..NO_WORKERS-1, one in every few a writer
\* (here every second one)
Procs == 0..(MaxWorkers - 1)
Writers == {i \in Procs : i % 2 = 1}
Readers == Procs \ Writers
\* the workers of the smaller runs: all but the last one
Fewer == 0..(MaxWorkers - 2)

\* locking.py:52
DEFAULT_TIMEOUT == 20
\* locking.py:60-61 -- the cohort tokens stored at w (by readers) and r (by writers)
WRITELOCK_ID == <<"id_reader">>
READLOCK_ID == <<"id_writer">>
\* locking.py:289-290 -- 'pid{0}_{1}'.format(pid, uuid4()): unique per process
Identifier(p) == <<"pid", p>>

\* locking.py:78-82, 152-156 -- the lock keys of the resource
Keys == {"mutex1", "mutex2", "mutex3", "r", "w"}
\* a key that does not exist in redis (GET returns None)
Absent == <<>>
\* Python's None for readcount_val / writecount_val; an int n is <<n>>
None == <<>>
\* redis TTL replies: -2 for a missing key, -1 for a key without expiry
TTL_MISSING == -2
TTL_NONE == -1

VARIABLES
    lock,        \* redis: key -> stored owner token, or Absent
    ttl,         \* redis: key -> remaining time to live (TTL reply)
    readcount,   \* redis: readcount__R
    writecount,  \* redis: writecount__R
    pc,          \* process -> statement it is at
    val,         \* process -> readcount_val / writecount_val (local)
    ret,         \* process -> reply of INCR / release_lock not yet used
    exc,         \* process -> exception in flight / delivered to the caller
    entries,     \* history: process -> its store-side increments not yet undone
    watch,       \* redis: process -> state of its WATCH on the key it releases
    elapsed,     \* history: number of lock timeouts that have run down so far
    caller       \* process -> the process whose f made this call, or None

vars == <<lock, ttl, readcount, writecount, pc, val, ret, exc, entries, watch, elapsed, caller>>

Row(op, key, cohort, next, alt, handler) ==
    [op |-> op, key |-> key, cohort |-> cohort, next |-> next, alt |-> alt,
     handler |-> handler]

(***************************************************************************)
(* func_wrapper of @reader as a table: statement -> redis command, the     *)
(* statement that follows (alt: when the first/last test is true), and     *)
(* handler: where an exception raised at the statement resumes (the exit   *)
(* of the innermost enclosing `with`, or the `finally` block).             *)
(***************************************************************************)
reader == [
    \* line 92: with redis_lock(redis_conn, mutex3)
    acq_mutex3     |-> Row("acquire", "mutex3", FALSE, "exp_mutex3", "exp_mutex3", "finally"),
    exp_mutex3     |-> Row("expire", "mutex3", FALSE, "acq_r", "acq_r", "finally"),
    \* line 93: with redis_lock(redis_conn, r)
    acq_r          |-> Row("acquire", "r", FALSE, "exp_r", "exp_r", "rel_mutex3"),
    exp_r          |-> Row("expire", "r", FALSE, "acq_mutex1", "acq_mutex1", "rel_mutex3"),
    \* line 96: with redis_lock(redis_conn, mutex1)
    acq_mutex1     |-> Row("acquire", "mutex1", FALSE, "exp_mutex1", "exp_mutex1", "rel_r"),
    exp_mutex1     |-> Row("expire", "mutex1", FALSE, "incr", "incr", "rel_r"),
    \* line 97: readcount_val = redis_conn.incr(readcount)
    incr           |-> Row("incr", "readcount", FALSE, "assign", "assign", "rel_mutex1"),
    \* lines 97, 106: store the reply; if readcount_val == 1
    assign         |-> Row("assign", "readcount", FALSE, "rel_mutex1", "acq_w", "rel_mutex1"),
    \* line 108: acquire_lock(redis_conn, w, WRITELOCK_ID)
    acq_w          |-> Row("acquire", "w", TRUE, "exp_w", "exp_w", "rel_mutex1"),
    exp_w          |-> Row("expire", "w", TRUE, "rel_mutex1", "rel_mutex1", "rel_mutex1"),
    \* exits of the three with blocks, innermost first
    rel_mutex1     |-> Row("release", "mutex1", FALSE, "rel_r", "rel_r", "rel_r"),
    rel_r          |-> Row("release", "r", FALSE, "rel_mutex3", "rel_mutex3", "rel_mutex3"),
    rel_mutex3     |-> Row("release", "mutex3", FALSE, "cs", "cs", "finally"),
    \* lines 111-112: result = f(self, ...); return result
    cs             |-> Row("cs", "", FALSE, "finally", "finally", "finally"),
    \* line 120: with redis_lock(redis_conn, mutex1)   (inside finally)
    fin_acq_mutex1 |-> Row("acquire", "mutex1", FALSE, "fin_exp_mutex1", "fin_exp_mutex1", "done"),
    fin_exp_mutex1 |-> Row("expire", "mutex1", FALSE, "decr", "decr", "done"),
    \* lines 121, 123: readcount_val = redis_conn.decr(readcount); if readcount_val == 0
    decr           |-> Row("decr", "readcount", FALSE, "fin_rel_mutex1", "rel_w", "fin_rel_mutex1"),
    \* line 125: release_lock(redis_conn, w, WRITELOCK_ID)
    rel_w          |-> Row("release", "w", TRUE, "fin_rel_mutex1", "fin_rel_mutex1", "fin_rel_mutex1"),
    fin_rel_mutex1 |-> Row("release", "mutex1", FALSE, "done", "done", "done")
]

(***************************************************************************)
(* func_wrapper of @writer, same layout.                                   *)
(***************************************************************************)
writer == [
    \* line 163: with redis_lock(redis_conn, mutex2)
    acq_mutex2     |-> Row("acquire", "mutex2", FALSE, "exp_mutex2", "exp_mutex2", "finally"),
    exp_mutex2     |-> Row("expire", "mutex2", FALSE, "incr", "incr", "finally"),
    \* line 164: writecount_val = redis_conn.incr(writecount)
    incr           |-> Row("incr", "writecount", FALSE, "assign", "assign", "rel_mutex2"),
    \* lines 164, 166: store the reply; if writecount_val == 1
    assign         |-> Row("assign", "writecount", FALSE, "rel_mutex2", "acq_r", "rel_mutex2"),
    \* line 167: acquire_lock(redis_conn, r, READLOCK_ID)
    acq_r          |-> Row("acquire", "r", TRUE, "exp_r", "exp_r", "rel_mutex2"),
    exp_r          |-> Row("expire", "r", TRUE, "rel_mutex2", "rel_mutex2", "rel_mutex2"),
    rel_mutex2     |-> Row("release", "mutex2", FALSE, "acq_w", "acq_w", "finally"),
    \* line 171: with redis_lock(redis_conn, w)
    acq_w          |-> Row("acquire", "w", FALSE, "exp_w", "exp_w", "finally"),
    exp_w          |-> Row("expire", "w", FALSE, "cs", "cs", "finally"),
    \* lines 173-174: return_val = f(self, ...); return return_val
    cs             |-> Row("cs", "", FALSE, "rel_w", "rel_w", "rel_w"),
    rel_w          |-> Row("release", "w", FALSE, "finally", "finally", "finally"),
    \* line 180: with redis_lock(redis_conn, mutex2)   (inside finally)
    fin_acq_mutex2 |-> Row("acquire", "mutex2", FALSE, "fin_exp_mutex2", "fin_exp_mutex2", "done"),
    fin_exp_mutex2 |-> Row("expire", "mutex2", FALSE, "decr", "decr", "done"),
    \* lines 181-182: writecount_val = redis_conn.decr(writecount); if writecount_val == 0
    decr           |-> Row("decr", "writecount", FALSE, "fin_rel_mutex2", "rel_r", "fin_rel_mutex2"),
    \* line 184: release_lock(redis_conn, r, READLOCK_ID)
    rel_r          |-> Row("release", "r", TRUE, "fin_rel_mutex2", "fin_rel_mutex2", "fin_rel_mutex2"),
    fin_rel_mutex2 |-> Row("release", "mutex2", FALSE, "done", "done", "done")
]

Code(p) == IF p \in Readers THEN reader ELSE writer
Running(p) == pc[p] \in DOMAIN Code(p)
\* mutant: both counters are protected by mutex1
Stmt_OneCounterMutex(p) ==
    IF Code(p)[pc[p]].key = "mutex2"
    THEN [Code(p)[pc[p]] EXCEPT !.key = "mutex1"]
    ELSE Code(p)[pc[p]]
\* mutant: the reader's finally block takes the turnstile mutex3 instead of
\* mutex1
Stmt_ExitUnderTurnstile(p) ==
    IF p \in Readers /\ pc[p] \in {"fin_acq_mutex1", "fin_exp_mutex1", "fin_rel_mutex1"}
    THEN [Code(p)[pc[p]] EXCEPT !.key = "mutex3"]
    ELSE Code(p)[pc[p]]
Stmt(p) == Code(p)[pc[p]]
At(p, op) == Running(p) /\ Stmt(p).op = op

\* mutant: the gates are always taken under the cohort constants
Token_GateConstant(p) ==
    IF Stmt(p).key = "w" THEN WRITELOCK_ID
    ELSE IF Stmt(p).key = "r" THEN READLOCK_ID
    ELSE Identifier(p)
\* the owner token a statement of p uses: the cohort constant on the gate of
\* the other role (lines 108, 125, 167, 184), a pid-prefixed one in redis_lock
Token(p) ==
    IF Stmt(p).cohort
    THEN (IF p \in Readers THEN WRITELOCK_ID ELSE READLOCK_ID)
    ELSE Identifier(p)

\* mutant: the first reader tests `readcount_val == 0` and never sets w
IsFirst_ReaderNever(p, v) == IF p \in Readers THEN v = 0 ELSE v = 1
\* mutant: every reader, not only the first, acquires w
IsFirst_ReaderAlways(p, v) == IF p \in Readers THEN v >= 1 ELSE v = 1
\* mutant: the first writer tests `writecount_val == 0` and never sets r
IsFirst_WriterNever(p, v) == IF p \in Writers THEN v = 0 ELSE v = 1
\* line 106 (reader) / line 166 (writer): `if readcount_val == 1`
IsFirst(p, v) == v = 1

\* mutant: every leaving reader, not only the last, releases w
IsLast_ReaderAlways(p, v) == IF p \in Readers THEN v >= 0 ELSE v = 0
\* mutant: every leaving writer, not only the last, releases r
IsLast_WriterAlways(p, v) == IF p \in Writers THEN v >= 0 ELSE v = 0
\* mutant: the exit test is the entry test `== 1` copied
IsLast_One(p, v) == v = 1
\* line 123 (reader) / line 182 (writer): `if readcount_val == 0`
IsLast(p, v) == v = 0

\* mutant: the exit sequence runs whether or not the counter was incremented
\* (as in h5pyswmr.py, lines 76-77 / 124-125)
Finally_Unconditional(p, v) ==
    IF p \in Readers THEN "fin_acq_mutex1" ELSE "fin_acq_mutex2"

\* mutant: the test of the finally block is inverted
Finally_Inverted(p, v) ==
    IF v = None
    THEN (IF p \in Readers THEN "fin_acq_mutex1" ELSE "fin_acq_mutex2")
    ELSE "done"

\* lines 117-120 / 179-180: the finally block does its exit sequence only
\* `if readcount_val is not None`
Finally(p, v) ==
    IF v # None
    THEN (IF p \in Readers THEN "fin_acq_mutex1" ELSE "fin_acq_mutex2")
    ELSE "done"

\* mutant: no finally block around the entry sequence (as in the decorators
\* of h5pyswmr.py, lines 57-69 / 109-115): an exception leaving the entry
\* sequence leaves func_wrapper
Handler_EntryOutsideTry(p) ==
    IF pc[p] \in DOMAIN Code(p) \ {"cs", "rel_w"} /\ Stmt(p).handler = "finally"
    THEN "done"
    ELSE Stmt(p).handler
\* mutant: SIGTERM keeps its default action, no handler of the process runs
Handler_Dies(p) == "done"
\* lines 91-113, 160-175 and redis_lock 294-298: where an exception raised at
\* the statement resumes
Handler(p) == Stmt(p).handler

Target(p, t) == IF t = "finally" THEN Finally(p, val[p]) ELSE t

\* control moves to statement t; the locals die when func_wrapper is left
Move(p, t) ==
    /\ pc' = [pc EXCEPT ![p] = Target(p, t)]
    /\ val' = [val EXCEPT ![p] = IF Target(p, t) = "done" THEN None ELSE @]

\* Python's False as the reply of release_lock (False == 0)
ReplyFalse == <<0>>

\* a command that modifies key k invalidates every WATCH placed on it
Touch(k) ==
    [q \in Procs |->
        IF watch[q] = "clean" /\ Running(q) /\ Stmt(q).key = k THEN "dirty" ELSE watch[q]]

Init ==
    /\ lock = [k \in Keys |-> Absent]
    /\ ttl = [k \in Keys |-> TTL_MISSING]
    /\ readcount = 0
    /\ writecount = 0
    /\ pc = [p \in Procs |-> "idle"]
    /\ val = [p \in Procs |-> None]
    /\ ret = [p \in Procs |-> None]
    /\ exc = [p \in Procs |-> "none"]
    /\ entries = [p \in Procs |-> 0]
    /\ watch = [p \in Procs |-> "none"]
    /\ elapsed = 0
    /\ caller = [p \in Procs |-> None]

\* a process calls the decorated method
Start(p) ==
    /\ pc[p] = "idle"
    /\ pc' = [pc EXCEPT ![p] = IF p \in Readers THEN "acq_mutex3" ELSE "acq_mutex2"]
    /\ UNCHANGED <<lock, ttl, readcount, writecount, val, ret, exc, entries, watch, elapsed, caller>>

\* mutant: SET instead of SETNX, the key is overwritten
Acquire_Set(p) ==
    /\ At(p, "acquire")
    /\ lock' = [lock EXCEPT ![Stmt(p).key] = Token(p)]
    /\ ttl' = [ttl EXCEPT ![Stmt(p).key] = TTL_NONE]
    /\ ret' = [ret EXCEPT ![p] = None]
    /\ watch' = Touch(Stmt(p).key)
    /\ pc' = [pc EXCEPT ![p] = Stmt(p).next]
    /\ UNCHANGED <<readcount, writecount, val, exc, entries, elapsed, caller>>

\* mutant: the turnstile mutex3 is taken whether or not it is free
Acquire_NoTurnstile(p) ==
    /\ At(p, "acquire")
    /\ lock[Stmt(p).key] = Absent \/ Stmt(p).key = "mutex3"
    /\ lock' = [lock EXCEPT ![Stmt(p).key] = Token(p)]
    /\ ttl' = [ttl EXCEPT ![Stmt(p).key] = TTL_NONE]
    /\ ret' = [ret EXCEPT ![p] = None]
    /\ watch' = Touch(Stmt(p).key)
    /\ pc' = [pc EXCEPT ![p] = Stmt(p).next]
    /\ UNCHANGED <<readcount, writecount, val, exc, entries, elapsed, caller>>

\* acquire_lock, line 220: conn.setnx(lockname, identifier) succeeds
Acquire(p) ==
    /\ At(p, "acquire")
    /\ lock[Stmt(p).key] = Absent
    /\ lock' = [lock EXCEPT ![Stmt(p).key] = Token(p)]
    /\ ttl' = [ttl EXCEPT ![Stmt(p).key] = TTL_NONE]
    /\ ret' = [ret EXCEPT ![p] = None]
    /\ watch' = Touch(Stmt(p).key)
    /\ pc' = [pc EXCEPT ![p] = Stmt(p).next]
    /\ UNCHANGED <<readcount, writecount, val, exc, entries, elapsed, caller>>

\* acquire_lock, lines 221-222: conn.expire(lockname, timeout); return identifier
Expire(p) ==
    /\ At(p, "expire")
    /\ ttl' = [ttl EXCEPT ![Stmt(p).key] =
                  IF lock[Stmt(p).key] # Absent THEN DEFAULT_TIMEOUT ELSE @]
    /\ watch' = Touch(Stmt(p).key)
    /\ pc' = [pc EXCEPT ![p] = Stmt(p).next]
    /\ UNCHANGED <<lock, readcount, writecount, val, ret, exc, entries, elapsed, caller>>

\* line 97 / 164: redis executes INCR; the reply is on its way to the process
Incr(p) ==
    /\ At(p, "incr")
    /\ IF p \in Readers
       THEN /\ readcount' = readcount + 1
            /\ ret' = [ret EXCEPT ![p] = <<readcount + 1>>]
            /\ UNCHANGED writecount
       ELSE /\ writecount' = writecount + 1
            /\ ret' = [ret EXCEPT ![p] = <<writecount + 1>>]
            /\ UNCHANGED readcount
    /\ entries' = [entries EXCEPT ![p] = @ + 1]
    /\ pc' = [pc EXCEPT ![p] = Stmt(p).next]
    /\ UNCHANGED <<lock, ttl, val, exc, watch, elapsed, caller>>

\* line 97 / 164: the reply is bound to readcount_val; line 106 / 166: first?
Assign(p) ==
    /\ At(p, "assign")
    /\ val' = [val EXCEPT ![p] = ret[p]]
    /\ ret' = [ret EXCEPT ![p] = None]
    /\ pc' = [pc EXCEPT ![p] = IF IsFirst(p, ret[p][1]) THEN Stmt(p).alt ELSE Stmt(p).next]
    /\ UNCHANGED <<lock, ttl, readcount, writecount, exc, entries, watch, elapsed, caller>>

\* mutant: a lost cohort gate raises LockException like a lost scoped lock
Release_GateFatal(p) ==
    /\ At(p, "release")
    /\ watch[p] # "dirty"
    /\ LET k == Stmt(p).key
           ok == lock[k] = Token(p) \/ watch[p] = "clean"
           e == IF ok THEN exc[p] ELSE "LockException"
       IN /\ lock' = [lock EXCEPT ![k] = IF ok THEN Absent ELSE @]
          /\ ttl' = [ttl EXCEPT ![k] = IF ok THEN TTL_MISSING ELSE @]
          /\ watch' = [(IF ok THEN Touch(k) ELSE watch) EXCEPT ![p] = "none"]
          /\ ret' = [ret EXCEPT ![p] = None]
          /\ exc' = [exc EXCEPT ![p] = e]
          /\ Move(p, IF e = "none" THEN Stmt(p).next ELSE Handler(p))
    /\ UNCHANGED <<readcount, writecount, entries, elapsed, caller>>

\* mutant: redis_lock ignores the reply of release_lock
Release_Silent(p) ==
    /\ At(p, "release")
    /\ watch[p] # "dirty"
    /\ LET k == Stmt(p).key
           ok == lock[k] = Token(p) \/ watch[p] = "clean"
       IN /\ lock' = [lock EXCEPT ![k] = IF ok THEN Absent ELSE @]
          /\ ttl' = [ttl EXCEPT ![k] = IF ok THEN TTL_MISSING ELSE @]
          /\ watch' = [(IF ok THEN Touch(k) ELSE watch) EXCEPT ![p] = "none"]
          /\ ret' = [ret EXCEPT ![p] = IF Stmt(p).cohort /\ ~ok THEN ReplyFalse ELSE None]
          /\ Move(p, IF exc[p] = "none" THEN Stmt(p).next ELSE Handler(p))
    /\ UNCHANGED <<readcount, writecount, exc, entries, elapsed, caller>>

\* release_lock, lines 245-256, with no command of another client on the key
\* between WATCH and EXEC: delete the key iff it holds the identifier (after
\* a GET that found the identifier, a WATCH still valid lets EXEC run DEL).
\* redis_lock, lines 297-298: a failed release of a scoped lock raises
\* LockException; lines 125-133 / 184-192: of a cohort gate it only prints a
\* warning (the False reply is pending in ret until the next statement).
Release(p) ==
    /\ At(p, "release")
    /\ watch[p] # "dirty"
    /\ LET k == Stmt(p).key
           ok == lock[k] = Token(p) \/ watch[p] = "clean"
           e == IF ok \/ Stmt(p).cohort THEN exc[p] ELSE "LockException"
       IN /\ lock' = [lock EXCEPT ![k] = IF ok THEN Absent ELSE @]
          /\ ttl' = [ttl EXCEPT ![k] = IF ok THEN TTL_MISSING ELSE @]
          /\ watch' = [(IF ok THEN Touch(k) ELSE watch) EXCEPT ![p] = "none"]
          /\ ret' = [ret EXCEPT ![p] = IF Stmt(p).cohort /\ ~ok THEN ReplyFalse ELSE None]
          /\ exc' = [exc EXCEPT ![p] = e]
          /\ Move(p, IF e = "none" THEN Stmt(p).next ELSE Handler(p))
    /\ UNCHANGED <<readcount, writecount, entries, elapsed, caller>>

\* line 111 / 173: the client's critical section f returns
CriticalSection(p) ==
    /\ At(p, "cs")
    /\ \A q \in Procs : caller[q] = <<p>> => (pc[q] = "done" /\ exc[q] = "none")
    /\ Move(p, Stmt(p).next)
    /\ UNCHANGED <<lock, ttl, readcount, writecount, ret, exc, entries, watch, elapsed, caller>>

\* line 111 / 173: the client's critical section f raises an exception
CriticalSectionRaises(p) ==
    /\ At(p, "cs")
    /\ \A q \in Procs : caller[q] # <<p>>
    /\ exc' = [exc EXCEPT ![p] = "Error"]
    /\ Move(p, Handler(p))
    /\ UNCHANGED <<lock, ttl, readcount, writecount, ret, entries, watch, elapsed, caller>>

\* h5pyswmr.py:12-15: f, itself a synchronized method, calls another
\* synchronized method on the same resource: the call q starts inside the
\* critical section of p (line 111 / 173) and p waits for it to return
Call(p, q) ==
    /\ At(p, "cs")
    /\ caller[p] = None
    /\ \A c \in Procs : caller[c] # <<p>>
    /\ q # p
    /\ pc[q] = "idle"
    /\ caller[q] = None
    /\ caller' = [caller EXCEPT ![q] = <<p>>]
    /\ pc' = [pc EXCEPT ![q] = IF q \in Readers THEN "acq_mutex3" ELSE "acq_mutex2"]
    /\ UNCHANGED <<lock, ttl, readcount, writecount, val, ret, exc, entries, watch, elapsed>>

\* the nested call has raised: its exception leaves f of the caller at line
\* 111 / 173
CallRaises(p) ==
    /\ At(p, "cs")
    /\ \E q \in Procs :
          /\ caller[q] = <<p>>
          /\ pc[q] = "done"
          /\ exc[q] # "none"
          /\ exc' = [exc EXCEPT ![p] = exc[q]]
    /\ Move(p, Handler(p))
    /\ UNCHANGED <<lock, ttl, readcount, writecount, ret, entries, watch, elapsed, caller>>

\* line 121 / 181: DECR and its reply; line 123 / 182: last?
Decr(p) ==
    /\ At(p, "decr")
    /\ LET n == IF p \in Readers THEN readcount - 1 ELSE writecount - 1
       IN /\ readcount' = IF p \in Readers THEN n ELSE readcount
          /\ writecount' = IF p \in Readers THEN writecount ELSE n
          /\ val' = [val EXCEPT ![p] = <<n>>]
          /\ pc' = [pc EXCEPT ![p] = IF IsLast(p, n) THEN Stmt(p).alt ELSE Stmt(p).next]
    /\ entries' = [entries EXCEPT ![p] = @ - 1]
    /\ UNCHANGED <<lock, ttl, ret, exc, watch, elapsed, caller>>

\* mutant: `not ttl` is true for every reply but a positive one
Not_Positive(n) == n <= 0
\* Python's `not n` for an int reply: true for 0 only
Not(n) == n = 0

\* mutant: a poll that finds the key in its last second takes it over
PollFail_Steal(p) ==
    /\ At(p, "acquire")
    /\ LET k == Stmt(p).key
       IN /\ lock[k] # Absent
          /\ lock' = [lock EXCEPT ![k] = IF Not(ttl[k]) THEN Token(p) ELSE @]
          /\ ttl' = [ttl EXCEPT ![k] = IF Not(ttl[k]) THEN DEFAULT_TIMEOUT ELSE @]
          /\ watch' = IF Not(ttl[k]) THEN Touch(k) ELSE watch
    /\ UNCHANGED <<readcount, writecount, pc, val, ret, exc, entries, elapsed, caller>>

\* acquire_lock, lines 220 and 223-226: setnx finds the key taken; the TTL of
\* the key is read and, if `not ttl`, the key is given the timeout again;
\* then the loop sleeps and polls again
PollFail(p) ==
    /\ At(p, "acquire")
    /\ LET k == Stmt(p).key
       IN /\ lock[k] # Absent
          /\ ttl' = [ttl EXCEPT ![k] = IF Not(ttl[k]) THEN DEFAULT_TIMEOUT ELSE @]
          /\ watch' = IF Not(ttl[k]) THEN Touch(k) ELSE watch
    /\ UNCHANGED <<lock, readcount, writecount, pc, val, ret, exc, entries, elapsed, caller>>

\* redis: time passes; a key whose timeout was set is in its last second
\* (TTL replies 0)
Tick(k) ==
    /\ elapsed < MaxTicks
    /\ ttl[k] = DEFAULT_TIMEOUT
    /\ ttl' = [ttl EXCEPT ![k] = 0]
    /\ elapsed' = elapsed + 1
    /\ UNCHANGED <<lock, readcount, writecount, pc, val, ret, exc, entries, watch, caller>>

\* redis: the timeout of the key has run out, the key is removed; whether
\* this invalidates a WATCH on the key depends on the version of the server
Expiry(k) ==
    /\ ttl[k] = 0
    /\ lock' = [lock EXCEPT ![k] = Absent]
    /\ ttl' = [ttl EXCEPT ![k] = TTL_MISSING]
    /\ \E touched \in BOOLEAN : watch' = IF touched THEN Touch(k) ELSE watch
    /\ UNCHANGED <<readcount, writecount, pc, val, ret, exc, entries, elapsed, caller>>

\* release_lock, lines 248-250: WATCH the key, GET finds the identifier; the
\* MULTI/DEL/EXEC of lines 250-252 is still to come
Watch(p) ==
    /\ At(p, "release")
    /\ watch[p] = "none"
    /\ lock[Stmt(p).key] = Token(p)
    /\ watch' = [watch EXCEPT ![p] = "clean"]
    /\ UNCHANGED <<lock, ttl, readcount, writecount, pc, val, ret, exc, entries, elapsed, caller>>

\* release_lock, lines 252 and 257-258: the watched key was modified, EXEC
\* raises WatchError and the handler raises it again; the key stays as it is
ExecAborted(p) ==
    /\ At(p, "release")
    /\ watch[p] = "dirty"
    /\ exc' = [exc EXCEPT ![p] = "WatchError"]
    /\ ret' = [ret EXCEPT ![p] = None]
    /\ watch' = [watch EXCEPT ![p] = "none"]
    /\ Move(p, Handler(p))
    /\ UNCHANGED <<lock, ttl, readcount, writecount, entries, elapsed, caller>>

\* the statements of the exit sequence (the finally block)
ExitSeq(p) ==
    IF p \in Readers
    THEN {"fin_acq_mutex1", "fin_exp_mutex1", "decr", "rel_w", "fin_rel_mutex1"}
    ELSE {"fin_acq_mutex2", "fin_exp_mutex2", "decr", "rel_r", "fin_rel_mutex2"}
\* the statements of the entry sequence, up to the call of f
EntrySeq(p) ==
    IF p \in Readers
    THEN DOMAIN reader \ (ExitSeq(p) \cup {"cs"})
    ELSE DOMAIN writer \ (ExitSeq(p) \cup {"cs", "rel_w"})

\* exception e is raised at the statement p is at: the reply of a redis
\* command in flight is dropped and control resumes at the handler
Raise(p, e) ==
    /\ Cardinality({q \in Procs : exc[q] = e}) < (IF e = "SystemExit" THEN MaxKills ELSE MaxTimeouts)
    /\ exc' = [exc EXCEPT ![p] = e]
    /\ ret' = [ret EXCEPT ![p] = None]
    /\ watch' = [watch EXCEPT ![p] = "none"]
    /\ Move(p, Handler(p))
    /\ UNCHANGED <<lock, ttl, readcount, writecount, entries, elapsed, caller>>

\* acquire_lock, lines 218-219, 228: the deadline passes, the loop ends and
\* False is returned; redis_lock 291-293 and lines 108-110 / 167-169 raise
Timeout(p) ==
    /\ At(p, "acquire")
    /\ Raise(p, "LockException")

EntryTimeout(p) == pc[p] \in EntrySeq(p) /\ Timeout(p)
ExitTimeout(p) == pc[p] \in ExitSeq(p) /\ Timeout(p)

\* handle_exit (lines 84, 158): SIGTERM makes the handler raise SystemExit in
\* the process, at whatever statement it is executing
Sigterm(p) ==
    /\ Running(p)
    /\ Raise(p, "SystemExit")

\* test_locks.py:48-50: a reader kills itself inside f
SigtermInRead(p) == p \in Readers /\ pc[p] = "cs" /\ Sigterm(p)
SigtermInEntry(p) == pc[p] \in EntrySeq(p) /\ Sigterm(p)

\* a process whose call returned normally calls the decorated method again
Restart(p) ==
    /\ pc[p] = "done"
    /\ exc[p] = "none"
    /\ pc' = [pc EXCEPT ![p] = "idle"]
    /\ UNCHANGED <<lock, ttl, readcount, writecount, val, ret, exc, entries, watch, elapsed, caller>>

Step(p) ==
    \/ Start(p)
    \/ Acquire(p)
    \/ Expire(p)
    \/ Incr(p)
    \/ Assign(p)
    \/ Release(p)
    \/ CriticalSection(p)
    \/ Decr(p)

Next == \E p \in Procs : Step(p) \/ Restart(p)

\* no lock expires, no acquire times out, no process is terminated
Spec == Init /\ [][Next]_vars

\* Fair scheduling: a process that can take a step other than starting a call
\* eventually takes it (every critical section is finite), and a process
\* polling for a lock that is free again and again eventually gets it.
Fairness ==
    \A p \in Procs :
        /\ WF_vars(Expire(p) \/ Incr(p) \/ Assign(p) \/ Release(p)
                      \/ CriticalSection(p) \/ Decr(p))
        /\ SF_vars(Acquire(p))
SpecFair == Init /\ [][Next]_vars /\ Fairness

\* some readers receive SIGTERM inside their critical section
NextTermRead == \E p \in Procs : Step(p) \/ SigtermInRead(p)
SpecTermRead == Init /\ [][NextTermRead]_vars

\* processes receive SIGTERM during their entry sequence
NextTermEntry == \E p \in Procs : Step(p) \/ SigtermInEntry(p)
SpecTermEntry == Init /\ [][NextTermEntry]_vars

\* acquires of the entry sequence time out
NextTimeout == \E p \in Procs : Step(p) \/ EntryTimeout(p)
SpecTimeout == Init /\ [][NextTimeout]_vars

\* acquires time out anywhere, processes are terminated anywhere
NextFaults == \E p \in Procs : Step(p) \/ EntryTimeout(p) \/ ExitTimeout(p) \/ Sigterm(p)
SpecFaults == Init /\ [][NextFaults]_vars

\* locks expire; polls find the key taken
NextExpiry ==
    \/ \E p \in Procs : Step(p) \/ PollFail(p)
    \/ \E k \in Keys : Tick(k) \/ Expiry(k)
SpecExpiry == Init /\ [][NextExpiry]_vars

\* locks expire, and acquires of the entry sequence time out
NextExpiryTimeout ==
    \/ \E p \in Fewer : Step(p) \/ PollFail(p) \/ EntryTimeout(p)
    \/ \E k \in Keys : Tick(k) \/ Expiry(k)
SpecExpiryTimeout == Init /\ [][NextExpiryTimeout]_vars

\* locks expire, and other commands on the key fall between the WATCH and
\* the EXEC of a release
NextWatch ==
    \/ \E p \in Fewer : Step(p) \/ PollFail(p) \/ Watch(p) \/ ExecAborted(p)
    \/ \E k \in Keys : Tick(k) \/ Expiry(k)
SpecWatch == Init /\ [][NextWatch]_vars

\* critical sections raise, and locks expire
NextRaise ==
    \/ \E p \in Fewer : Step(p) \/ PollFail(p) \/ CriticalSectionRaises(p)
    \/ \E k \in Keys : Tick(k) \/ Expiry(k)
SpecRaise == Init /\ [][NextRaise]_vars

\* locks expire and the acquire of the counter mutex in a finally block
\* times out (lines 120, 181)
NextReclaim ==
    \/ \E p \in Fewer : Step(p) \/ PollFail(p) \/ ExitTimeout(p)
    \/ \E k \in Keys : Tick(k) \/ Expiry(k)
SpecReclaim == Init /\ [][NextReclaim]_vars

\* the first reader's entry is aborted at its acquisition of w (line 108):
\* the acquire times out, or the process is terminated while polling
AbortFirst(p) ==
    /\ p \in Readers
    /\ pc[p] = "acq_w"
    /\ Timeout(p) \/ Sigterm(p)
NextAbortFirst == \E p \in Procs : Step(p) \/ AbortFirst(p)
SpecAbortFirst == Init /\ [][NextAbortFirst]_vars

\* a read epoch outlasts the timeout of its gate: w, set once by the first
\* reader (lines 105-108, 221), runs down and expires
NextEpoch ==
    \/ \E p \in Procs : Step(p) \/ PollFail(p)
    \/ Tick("w") \/ Expiry("w")
SpecEpoch == Init /\ [][NextEpoch]_vars

\* critical sections call synchronized methods; an acquire of a nested call
\* times out
NestedTimeout(p) == caller[p] # None /\ EntryTimeout(p)
NextNested ==
    \E p \in Procs :
        \/ Step(p)
        \/ \E q \in Procs : Call(p, q)
        \/ CallRaises(p)
        \/ NestedTimeout(p)
SpecNested == Init /\ [][NextNested]_vars

\* a finite number of calls: every process calls its method once; the
\* scheduler is fair as in SpecFair
NextFinite == \E p \in Procs : Step(p)
SpecFinite == Init /\ [][NextFinite]_vars /\ Fairness

(***************************************************************************)
(* The decorators of h5pyswmr.py (lines 34-132) issue the same statements  *)
(* as those of locking.py; they differ in where an exception resumes and   *)
(* in what a failed release of a cohort gate does.                         *)
(***************************************************************************)
\* h5pyswmr.py, lines 70-72 / 116-119: the statements inside `try`
InTry_h5pyswmr(p) ==
    pc[p] \in (IF p \in Readers THEN {"cs"} ELSE {"acq_w", "exp_w", "cs", "rel_w"})
\* h5pyswmr.py, lines 57-69 / 109-115: the entry sequence is outside `try`;
\* an exception that leaves its with blocks leaves func_wrapper
Handler_h5pyswmr(p) ==
    IF Stmt(p).handler = "finally" /\ ~InTry_h5pyswmr(p)
    THEN "done"
    ELSE Stmt(p).handler
\* h5pyswmr.py, lines 75-76 / 122-123: the finally block has no test
Target_h5pyswmr(p, t) ==
    IF t = "finally"
    THEN (IF p \in Readers THEN "fin_acq_mutex1" ELSE "fin_acq_mutex2")
    ELSE t
Move_h5pyswmr(p, t) ==
    /\ pc' = [pc EXCEPT ![p] = Target_h5pyswmr(p, t)]
    /\ val' = [val EXCEPT ![p] = IF Target_h5pyswmr(p, t) = "done" THEN None ELSE @]
\* h5pyswmr.py, lines 78-81 / 125-128: a failed release of the cohort gate
\* raises LockException("... was lost"); redis_lock as in locking.py
Release_h5pyswmr(p) ==
    /\ At(p, "release")
    /\ watch[p] # "dirty"
    /\ LET k == Stmt(p).key
           ok == lock[k] = Token(p) \/ watch[p] = "clean"
           e == IF ok THEN exc[p] ELSE "LockException"
       IN /\ lock' = [lock EXCEPT ![k] = IF ok THEN Absent ELSE @]
          /\ ttl' = [ttl EXCEPT ![k] = IF ok THEN TTL_MISSING ELSE @]
          /\ watch' = [(IF ok THEN Touch(k) ELSE watch) EXCEPT ![p] = "none"]
          /\ ret' = [ret EXCEPT ![p] = None]
          /\ exc' = [exc EXCEPT ![p] = e]
          /\ Move_h5pyswmr(p, IF e = "none" THEN Stmt(p).next ELSE Handler_h5pyswmr(p))
    /\ UNCHANGED <<readcount, writecount, entries, elapsed, caller>>
\* h5pyswmr.py, lines 67-69 / 113-115 and redis_lock: an acquire times out
Timeout_h5pyswmr(p) ==
    /\ At(p, "acquire")
    /\ Cardinality({q \in Procs : exc[q] = "LockException"}) < MaxTimeouts
    /\ exc' = [exc EXCEPT ![p] = "LockException"]
    /\ ret' = [ret EXCEPT ![p] = None]
    /\ watch' = [watch EXCEPT ![p] = "none"]
    /\ Move_h5pyswmr(p, Handler_h5pyswmr(p))
    /\ UNCHANGED <<lock, ttl, readcount, writecount, entries, elapsed, caller>>
\* h5pyswmr.py, lines 71-72 / 119, 130: f returns
CriticalSection_h5pyswmr(p) ==
    /\ At(p, "cs")
    /\ \A q \in Procs : caller[q] = <<p>> => (pc[q] = "done" /\ exc[q] = "none")
    /\ Move_h5pyswmr(p, Stmt(p).next)
    /\ UNCHANGED <<lock, ttl, readcount, writecount, ret, exc, entries, watch, elapsed, caller>>
\* h5pyswmr.py, lines 73-74 / 120-121: f raises, the exception is re-raised
CriticalSectionRaises_h5pyswmr(p) ==
    /\ At(p, "cs")
    /\ \A q \in Procs : caller[q] # <<p>>
    /\ exc' = [exc EXCEPT ![p] = "Error"]
    /\ Move_h5pyswmr(p, Handler_h5pyswmr(p))
    /\ UNCHANGED <<lock, ttl, readcount, writecount, ret, entries, watch, elapsed, caller>>

\* the runs in which the two pairs of decorators are compared: acquires of
\* the entry sequence time out, locks expire, critical sections raise
NextEquiv ==
    \/ \E p \in Fewer : Step(p) \/ PollFail(p) \/ EntryTimeout(p) \/ CriticalSectionRaises(p)
    \/ \E k \in Keys : Tick(k) \/ Expiry(k)
SpecEquiv == Init /\ [][NextEquiv]_vars

\* processes are terminated during their entry sequence and the others keep
\* polling for the locks, under fair scheduling
NextHeal == NextTermEntry \/ \E p \in Procs : PollFail(p)
SpecHeal ==
    /\ Init /\ [][NextHeal]_vars
    /\ \A p \in Procs :
           /\ WF_vars(Expire(p) \/ Incr(p) \/ Assign(p) \/ Release(p)
                         \/ CriticalSection(p) \/ Decr(p))
           /\ WF_vars(PollFail(p))
           /\ SF_vars(Acquire(p))

(***************************************************************************)
(* Properties                                                              *)
(***************************************************************************)
\* a reader is executing f (line 111)
InRead(p) == p \in Readers /\ pc[p] = "cs"
\* a writer is past the acquisition of w (lines 171-174)
InWrite(p) == p \in Writers /\ pc[p] \in {"exp_w", "cs", "rel_w"}
\* every call has returned (or was never made)
Quiescent == \A p \in Procs : pc[p] \in {"idle", "done"}
\* the round-trip state of the store
Clean ==
    /\ readcount = 0
    /\ writecount = 0
    /\ \A k \in Keys : lock[k] = Absent

\* C1: no reader is inside its critical section while a writer is inside its
\* own; while a reader is inside, w holds the readers' token, so a writer that
\* tries to enter cannot get past its acquisition of w.
C1_ReaderWriterExclusion ==
    \A a \in Readers : InRead(a) =>
        /\ \A b \in Writers : ~InWrite(b)
        /\ lock["w"] = WRITELOCK_ID
\* a reader is inside and a writer that has incremented writecount waits at w
C1_Witness ==
    \E a \in Readers, b \in Writers :
        InRead(a) /\ pc[b] = "acq_w" /\ writecount >= 1

\* C2: at most one writer is past the acquisition of w.
C2_WriterMutex == Cardinality({b \in Writers : InWrite(b)}) <= 1
\* one writer is writing, a second one has incremented writecount and waits at w
C2_Witness ==
    \E a, b \in Writers :
        a # b /\ pc[a] = "cs" /\ pc[b] = "acq_w" /\ writecount = 2

C4_NoReaderEnters ==
    [][lock["r"] = READLOCK_ID =>
          /\ readcount' <= readcount
          /\ \A a \in Readers : InRead(a)' => InRead(a)]_vars
\* C4 (amended): while r holds the writers' token no reader is between its
\* acquisition and its release of r, so readcount is not incremented; r keeps
\* the token until a writer that decremented writecount to 0 releases it; the
\* only reader that still enters its critical section is the one that had
\* incremented readcount and released r before and still holds mutex3.
C4_WriterGate ==
    /\ [](lock["r"] = READLOCK_ID =>
            \A a \in Readers :
                pc[a] \in EntrySeq(a) => pc[a] \in {"acq_mutex3", "exp_mutex3", "acq_r", "rel_mutex3"})
    /\ [][lock["r"] = READLOCK_ID =>
            /\ readcount' <= readcount
            /\ lock'["r"] # READLOCK_ID => writecount' = 0
            /\ \A a \in Readers : InRead(a)' /\ ~InRead(a) =>
                    lock["mutex3"] = Identifier(a) /\ entries[a] = 1]_vars
\* the gate is up, one reader is still inside and another one waits at r
C4_Witness ==
    /\ lock["r"] = READLOCK_ID
    /\ \E a, b \in Readers : InRead(a) /\ pc[b] = "acq_r"

\* C5: while no writer runs, nothing a reader waits for in its entry is held
\* by a reader inside its critical section or by the readers' cohort: a lock
\* it finds taken is held by a reader in its own entry or exit sequence; and
\* no reader ends with an error.
C5_ParallelReaders ==
    /\ (\A b \in Writers : ~Running(b)) =>
          \A a \in Readers :
              (pc[a] \in EntrySeq(a) /\ At(a, "acquire") /\ lock[Stmt(a).key] # Absent) =>
                  \E c \in Readers : ~InRead(c) /\ lock[Stmt(a).key] = Identifier(c)
    /\ \A a \in Readers : exc[a] = "none"
\* two readers are inside at the same time, no writer active or waiting
C5_Witness ==
    /\ writecount = 0
    /\ \E a, b \in Readers : a # b /\ InRead(a) /\ InRead(b)

\* C6: when every call has returned normally, both counters are 0 and none
\* of the five lock keys exists.
C6_RoundTrip ==
    (Quiescent /\ \A p \in Procs : exc[p] = "none") => Clean
\* every reader and every writer has completed a call
C6_Witness == \A p \in Procs : pc[p] = "done" /\ exc[p] = "none"

\* the store-side increments of a set of processes that are not undone
RECURSIVE Registered(_)
Registered(S) ==
    IF S = {} THEN 0
    ELSE LET p == CHOOSE q \in S : TRUE IN entries[p] + Registered(S \ {p})

\* C7: with readers terminated by SIGTERM inside f, a terminated reader runs
\* the exit sequence like a returning one (it holds its increment until its
\* decrement under mutex1), and once every process has finished both counters
\* are 0 and no lock key of R is left.
C7_CleanupAfterSuicide ==
    /\ Quiescent => Clean
    /\ \A a \in Readers : exc[a] = "SystemExit" =>
           \/ pc[a] \in {"fin_acq_mutex1", "fin_exp_mutex1", "decr"} /\ entries[a] = 1
           \/ pc[a] \in {"rel_w", "fin_rel_mutex1", "done"} /\ entries[a] = 0
\* everybody has finished and a reader was terminated inside f
C7_Witness ==
    /\ \A p \in Procs : pc[p] = "done"
    /\ \E a \in Readers : exc[a] = "SystemExit"

\* C8: with processes terminated by SIGTERM during their entry sequence, once
\* every process has finished both counters are 0 and neither gate is left
\* under its cohort token.
C8_RefundOnEntryKill ==
    Quiescent =>
        /\ readcount = 0
        /\ writecount = 0
        /\ lock["w"] # WRITELOCK_ID
        /\ lock["r"] # READLOCK_ID

\* C9: with acquires of the entry sequence timing out, a process that has
\* LockException in flight never runs f, and once every failed process has
\* finished the keys are as if it had never started: its increment is undone,
\* no key holds its token, each counter is the number of processes still
\* registered, and (whenever the counter mutex is free) a gate is held under
\* its cohort token exactly if its counter is positive.
C9_AsIfNeverStarted ==
    /\ \A p \in Procs : exc[p] = "LockException" => pc[p] # "cs" /\ ~InWrite(p)
    /\ (\A p \in Procs : exc[p] = "LockException" => pc[p] = "done") =>
           /\ \A p \in Procs : exc[p] = "LockException" =>
                  entries[p] = 0 /\ \A k \in Keys : lock[k] # Identifier(p)
           /\ readcount = Registered(Readers)
           /\ writecount = Registered(Writers)
           /\ lock["mutex1"] = Absent => (readcount > 0 <=> lock["w"] = WRITELOCK_ID)
           /\ lock["mutex2"] = Absent => (writecount > 0 <=> lock["r"] = READLOCK_ID)
\* C9, the part that holds: the failed process never runs f, its own increment
\* is undone and its own locks are released, a gate does not stay under its
\* cohort token at counter 0, and quiescent states are the round-trip state.
C9_OwnStateRolledBack ==
    /\ \A p \in Procs : exc[p] = "LockException" => pc[p] # "cs" /\ ~InWrite(p)
    /\ \A p \in Procs : (pc[p] = "done" /\ exc[p] = "LockException") =>
           /\ entries[p] = 0
           /\ \A k \in Keys : lock[k] # Identifier(p)
    /\ readcount = Registered(Readers)
    /\ writecount = Registered(Writers)
    /\ (readcount = 0 /\ lock["mutex1"] = Absent) => lock["w"] # WRITELOCK_ID
    /\ (writecount = 0 /\ lock["mutex2"] = Absent) => lock["r"] # READLOCK_ID
    /\ Quiescent => Clean

\* C10: with acquire timeouts and SIGTERM anywhere, the counters are never
\* negative: a process is at its decrement only while it holds exactly one
\* increment of its own, and each counter is the sum of the increments held.
C10_CountersNonNegative ==
    /\ readcount >= 0
    /\ writecount >= 0
    /\ \A p \in Procs : entries[p] \in {0, 1}
    /\ \A p \in Procs : At(p, "decr") => entries[p] = 1
    /\ readcount = Registered(Readers)
    /\ writecount = Registered(Writers)
\* a terminated process is at its decrement after another one's acquire timed out
C10_Witness ==
    \E p, q \in Procs :
        /\ exc[p] = "SystemExit" /\ At(p, "decr")
        /\ exc[q] = "LockException" /\ pc[q] = "done"

\* C13: acquire_lock goes on (returns its identifier) only from a step in
\* which the key was absent and now holds that identifier; a key that is
\* present never changes its value, it can only be removed, and it is removed
\* only by a release with the stored identifier or by expiry; an acquire that
\* gives up at its deadline leaves every key as it is.
C13_PrimitiveExclusion ==
    /\ [][\A p \in Procs : (At(p, "acquire") /\ pc'[p] = Stmt(p).next) =>
              lock[Stmt(p).key] = Absent /\ lock'[Stmt(p).key] = Token(p)]_vars
    /\ [][\A k \in Keys : (lock[k] # Absent /\ lock'[k] # lock[k]) =>
              /\ lock'[k] = Absent
              /\ \/ Not(ttl[k])
                 \/ \E p \in Procs : At(p, "release") /\ Stmt(p).key = k
                                         /\ Token(p) = lock[k] /\ pc'[p] # pc[p]]_vars
    /\ [][\A p \in Procs : (At(p, "acquire") /\ exc'[p] # exc[p]) =>
              exc'[p] = "LockException" /\ lock' = lock]_vars
\* mutex1 expired under a reader that is at its increment and was acquired
\* by another process, and some acquire has timed out
C13_Witness ==
    /\ \E p, q \in Readers :
          p # q /\ pc[p] \in {"incr", "assign"} /\ lock["mutex1"] = Identifier(q)
    /\ \E t \in Procs : exc[t] = "LockException"

\* C14: a call of release_lock ends in one of two ways: the key held the
\* caller's identifier and is deleted (True), or the key is left as it is and
\* the caller gets False (a scoped lock then raises LockException, a cohort
\* gate prints its warning); a key never loses a value to a release made with
\* another identifier.
C14_ForeignRelease ==
    /\ [][\A p \in Procs : (At(p, "release") /\ pc'[p] # pc[p]) =>
              LET k == Stmt(p).key
              IN \/ lock[k] = Token(p) /\ lock'[k] = Absent
                 \/ /\ lock'[k] = lock[k]
                    /\ IF Stmt(p).cohort THEN ret'[p] = ReplyFalse
                       ELSE exc'[p] = "LockException"]_vars
    /\ [][\A k \in Keys : (lock[k] # Absent /\ lock'[k] = Absent) =>
              \/ Not(ttl[k])
              \/ \E p \in Procs : At(p, "release") /\ Stmt(p).key = k
                                      /\ Token(p) = lock[k] /\ pc'[p] # pc[p]]_vars

\* C15: no call of release_lock ends with the WatchError of its transaction.
C15_NoWatchError == \A p \in Procs : exc[p] # "WatchError"

\* C16: in no reachable state, also with processes terminated inside
\* acquire_lock, is a lock key present without an expiry.
C16_EveryLockExpires ==
    \A k \in Keys : lock[k] # Absent => ttl[k] # TTL_NONE

\* C17: a key that is present without expiry while some process polls for it
\* is given an expiry by a poll (or nobody polls for it any more).
C17_SelfHeal ==
    \A k \in Keys :
        (lock[k] # Absent /\ ttl[k] = TTL_NONE
            /\ \E p \in Procs : At(p, "acquire") /\ Stmt(p).key = k)
        ~> (ttl[k] # TTL_NONE
            \/ ~ \E p \in Procs : At(p, "acquire") /\ Stmt(p).key = k)

\* the `with redis_lock(...)` blocks of a process: the statements of the body
\* (from the return of acquire_lock to the end of the block) and the
\* statement that releases the lock
Scopes(p) ==
    IF p \in Readers
    THEN { [key |-> "mutex3", exit |-> "rel_mutex3",
            body |-> {"acq_r", "exp_r", "acq_mutex1", "exp_mutex1", "incr", "assign",
                      "acq_w", "exp_w", "rel_mutex1", "rel_r"}],
           [key |-> "r", exit |-> "rel_r",
            body |-> {"acq_mutex1", "exp_mutex1", "incr", "assign", "acq_w", "exp_w",
                      "rel_mutex1"}],
           [key |-> "mutex1", exit |-> "rel_mutex1",
            body |-> {"incr", "assign", "acq_w", "exp_w"}],
           [key |-> "mutex1", exit |-> "fin_rel_mutex1", body |-> {"decr", "rel_w"}] }
    ELSE { [key |-> "mutex2", exit |-> "rel_mutex2",
            body |-> {"incr", "assign", "acq_r", "exp_r"}],
           [key |-> "w", exit |-> "rel_w", body |-> {"cs"}],
           [key |-> "mutex2", exit |-> "fin_rel_mutex2", body |-> {"decr", "rel_r"}] }

\* C18: a body of redis_lock is entered only from the expire that follows a
\* setnx which stored the process's own pid-prefixed identifier, never after
\* a failed acquire; every way out of the body, normal or by exception, leads
\* to the release of that lock with that identifier; and a release that
\* finds another value or no key raises LockException -- so a reader at its
\* increment whose mutex1 has expired raises when it leaves the block.
C18_ScopedLock ==
    /\ [][\A p \in Procs : (At(p, "acquire") /\ ~Stmt(p).cohort /\ pc'[p] # pc[p]) =>
              \/ pc'[p] = Stmt(p).next /\ lock'[Stmt(p).key] = Identifier(p)
                    /\ exc'[p] = exc[p]
              \/ pc'[p] # Stmt(p).next /\ exc'[p] = "LockException"]_vars
    /\ [][\A p \in Procs : \A s \in Scopes(p) :
              /\ (pc[p] \notin s.body /\ pc'[p] \in s.body) =>
                     At(p, "expire") /\ Stmt(p).key = s.key
              /\ (pc[p] \in s.body /\ pc'[p] \notin s.body) =>
                     pc'[p] = s.exit /\ Code(p)[s.exit].key = s.key
                        /\ ~Code(p)[s.exit].cohort]_vars
    /\ [][\A p \in Procs :
              (At(p, "release") /\ ~Stmt(p).cohort /\ pc'[p] # pc[p]
                   /\ lock[Stmt(p).key] # Identifier(p)) =>
                  exc'[p] = "LockException" /\ pc'[p] = Target(p, Handler(p))]_vars
\* a reader that was not the first one has left the mutex1 block of its
\* increment with LockException: its mutex1 had expired
C18_Witness ==
    \E p \in Readers :
        pc[p] = "rel_r" /\ val[p] = <<2>> /\ exc[p] = "LockException"

\* C19: with locks expiring, a last reader (writer) whose release of w (r)
\* with the cohort token finds another value or no key gets False and goes
\* on: nothing is raised, no key is changed, and the release of mutex1
\* (mutex2) that follows ends the call as after a successful release; and
\* whenever every call has returned without error the store is in the
\* round-trip state, so later epochs started and ended as from Init.
C19_LostGateNotFatal ==
    /\ [][\A p \in Procs :
              (At(p, "release") /\ Stmt(p).cohort /\ pc'[p] # pc[p]
                   /\ lock[Stmt(p).key] # Token(p)) =>
                  /\ exc'[p] = exc[p]
                  /\ pc'[p] = Stmt(p).next
                  /\ ret'[p] = ReplyFalse
                  /\ lock' = lock]_vars
    /\ [][\A p \in Procs :
              (ret[p] = ReplyFalse /\ pc'[p] # pc[p]
                   /\ lock[Stmt(p).key] = Identifier(p)) =>
                  /\ pc'[p] = "done"
                  /\ exc'[p] = exc[p]
                  /\ lock'[Stmt(p).key] = Absent]_vars
    /\ []((Quiescent /\ \A p \in Procs : exc[p] = "none") => Clean)
\* the last writer found r lost, prints its warning and still holds mutex2,
\* while the first reader of a new epoch has set w and is inside
C19_Witness ==
    /\ \E b \in Writers :
          pc[b] = "fin_rel_mutex2" /\ ret[b] = ReplyFalse /\ exc[b] = "none"
    /\ \E a \in Readers : InRead(a) /\ lock["w"] = WRITELOCK_ID /\ readcount = 1

\* C20: an exception raised by f stays the exception in flight until it
\* reaches the caller, and the call ends with the process's increment undone.
C20_ErrorReachesCaller ==
    /\ [][\A p \in Procs : exc[p] = "Error" => exc'[p] = "Error"]_vars
    /\ [](\A p \in Procs : (exc[p] = "Error" /\ pc[p] = "done") => entries[p] = 0)

\* C11: with no lock expiring and no entry aborted, whenever mutex1 is free
\* and readcount is positive, w holds the readers' cohort token.
C11_ReaderGate ==
    (lock["mutex1"] = Absent /\ readcount > 0) => lock["w"] = WRITELOCK_ID
\* mutex1 is free, two readers are registered and a writer polls w
C11_Witness ==
    /\ lock["mutex1"] = Absent
    /\ readcount = 2
    /\ \E b \in Writers : pc[b] = "acq_w"

\* C12: with no lock expiring and no entry aborted, whenever mutex2 is free
\* and writecount is at least 1, r holds the writers' cohort token.
C12_WriterGate ==
    (lock["mutex2"] = Absent /\ writecount >= 1) => lock["r"] = READLOCK_ID
\* mutex2 is free, two writers are registered (one writing, one waiting) and
\* a reader polls r
C12_Witness ==
    /\ lock["mutex2"] = Absent
    /\ writecount = 2
    /\ \E a \in Readers : pc[a] = "acq_r"

\* the keys a sweep over the values prefixed with the pid of p would delete
\* (the prefix of redis_lock's identifier, lines 287-290)
SweptBy(p) ==
    {k \in Keys : Len(lock[k]) = 2 /\ lock[k][1] = "pid" /\ lock[k][2] = p}
\* a reader is between its acquisition and its release of r (lines 96-112)
HoldsR(p) ==
    /\ p \in Readers
    /\ pc[p] \in {"exp_r", "acq_mutex1", "exp_mutex1", "incr", "assign",
                  "acq_w", "exp_w", "rel_mutex1", "rel_r"}

\* C22: w only ever holds 'id_reader' or a writer's pid-prefixed token and r
\* only 'id_writer' or a reader's pid-prefixed token; a reader's step changes
\* w only between absent and 'id_reader', a writer's step changes r only
\* between absent and 'id_writer'; so while a writer is between its
\* acquisition and its release of w no other process's step changes w, while
\* a reader is between its acquisition and release of r no other process's
\* step changes r, and no key a sweep over a process's pid-prefixed values
\* would delete holds a cohort token.
C22_TokenSeparation ==
    /\ [](lock["w"] \in {Absent, WRITELOCK_ID} \cup {Identifier(b) : b \in Writers})
    /\ [](lock["r"] \in {Absent, READLOCK_ID} \cup {Identifier(a) : a \in Readers})
    /\ [][\A a \in Readers : (pc'[a] # pc[a] /\ lock'["w"] # lock["w"]) =>
              {lock["w"], lock'["w"]} = {Absent, WRITELOCK_ID}]_vars
    /\ [][\A b \in Writers : (pc'[b] # pc[b] /\ lock'["r"] # lock["r"]) =>
              {lock["r"], lock'["r"]} = {Absent, READLOCK_ID}]_vars
    /\ [][\A b \in Writers : (InWrite(b) /\ pc'[b] = pc[b]) =>
              /\ lock["w"] = Identifier(b)
              /\ lock'["w"] = lock["w"]]_vars
    /\ [][\A a \in Readers : (HoldsR(a) /\ pc'[a] = pc[a]) =>
              /\ lock["r"] = Identifier(a)
              /\ lock'["r"] = lock["r"]]_vars
    /\ [](\A p \in Procs : \A k \in SweptBy(p) :
              lock[k] \notin {WRITELOCK_ID, READLOCK_ID})
\* a last reader's release of w has found a writer's token and left it: the
\* writer is still inside, holding w
C22_Witness ==
    \E a \in Readers, b \in Writers :
        /\ pc[a] = "fin_rel_mutex1" /\ ret[a] = ReplyFalse
        /\ pc[b] = "cs" /\ lock["w"] = Identifier(b)
        /\ "w" \in SweptBy(b)

\* a reader polls for r or holds it (lines 96-112)
AtR(p) == p \in Readers /\ (pc[p] = "acq_r" \/ HoldsR(p))

\* C23: with no lock expiring, at most one reader polls for r or holds it,
\* and that reader holds mutex3; so while r holds the writers' token every
\* other reader that has started its entry is at mutex3.
C23_Turnstile ==
    /\ Cardinality({a \in Readers : AtR(a)}) <= 1
    /\ \A a \in Readers : AtR(a) => lock["mutex3"] = Identifier(a)
    /\ lock["r"] = READLOCK_ID =>
           \A a, c \in Readers :
               (pc[a] = "acq_r" /\ c # a /\ pc[c] \in EntrySeq(c)) =>
                   pc[c] = "acq_mutex3"
\* a writer epoch holds r, one reader polls r under mutex3 and another one
\* polls mutex3
C23_Witness ==
    /\ lock["r"] = READLOCK_ID
    /\ \E a, c \in Readers :
          pc[a] = "acq_r" /\ lock["mutex3"] = Identifier(a) /\ pc[c] = "acq_mutex3"

\* C24 (as claimed): every acquisition and every release of w is done by a
\* process that holds mutex1, and every one of r by a process that holds
\* mutex2.
C24_GatesUnderCounterMutex ==
    [][\A p \in Procs :
          ((At(p, "acquire") \/ At(p, "release")) /\ pc'[p] # pc[p]) =>
              /\ Stmt(p).key = "w" => lock["mutex1"] = Identifier(p)
              /\ Stmt(p).key = "r" => lock["mutex2"] = Identifier(p)]_vars
\* C24 (amended): with no lock expiring, every acquisition and release of w
\* under 'id_reader' is done by a reader that holds mutex1 and every one of r
\* under 'id_writer' by a writer that holds mutex2; a writer takes and
\* releases w under its own token holding neither mutex1 nor mutex2, and a
\* reader takes and releases r under its own token holding mutex3 and not
\* mutex2.
C24_CohortGatesUnderCounterMutex ==
    [][\A p \in Procs :
          ((At(p, "acquire") \/ At(p, "release")) /\ pc'[p] # pc[p]
               /\ Stmt(p).key \in {"w", "r"}) =>
              IF Stmt(p).cohort
              THEN /\ Stmt(p).key = "w" => p \in Readers /\ lock["mutex1"] = Identifier(p)
                   /\ Stmt(p).key = "r" => p \in Writers /\ lock["mutex2"] = Identifier(p)
              ELSE /\ Stmt(p).key = "w" =>
                          /\ p \in Writers
                          /\ lock["mutex1"] # Identifier(p)
                          /\ lock["mutex2"] # Identifier(p)
                   /\ Stmt(p).key = "r" =>
                          /\ p \in Readers
                          /\ lock["mutex3"] = Identifier(p)
                          /\ lock["mutex2"] # Identifier(p)]_vars
\* a writer has taken w under its own token while another process holds
\* mutex1 and mutex2 is free
C24_Witness ==
    \E b \in Writers :
        /\ pc[b] = "exp_w" /\ lock["w"] = Identifier(b)
        /\ lock["mutex1"] \notin {Absent, Identifier(b)}
        /\ lock["mutex2"] = Absent

\* C25: a step of a write operation changes neither mutex1 nor mutex3 (nor
\* their expiry) nor readcount, and no statement of the writer names mutex1
\* or mutex3; a step of a read operation changes neither mutex2 nor
\* writecount, and no statement of the reader names mutex2.
C25_Frame ==
    /\ [][\A b \in Writers : pc'[b] # pc[b] =>
              /\ lock'["mutex1"] = lock["mutex1"] /\ ttl'["mutex1"] = ttl["mutex1"]
              /\ lock'["mutex3"] = lock["mutex3"] /\ ttl'["mutex3"] = ttl["mutex3"]
              /\ readcount' = readcount]_vars
    /\ [][\A a \in Readers : pc'[a] # pc[a] =>
              /\ lock'["mutex2"] = lock["mutex2"] /\ ttl'["mutex2"] = ttl["mutex2"]
              /\ writecount' = writecount]_vars
    /\ [](\A b \in Writers : Running(b) => Stmt(b).key \notin {"mutex1", "mutex3"})
    /\ [](\A a \in Readers : Running(a) => Stmt(a).key # "mutex2")
\* a writer has registered itself and polls w while readers hold mutex1 and
\* mutex3 and one of them is registered
C25_Witness ==
    /\ \E b \in Writers : pc[b] = "acq_w" /\ writecount = 1
    /\ lock["mutex1"] # Absent
    /\ lock["mutex3"] # Absent
    /\ readcount >= 1

\* C26: a reader that finds its increment has returned more than 1 while w
\* does not hold the readers' token (line 105, still under mutex1), and a
\* process whose decrement returns a negative value, fail with an error
\* instead of going on.
C26_ViolationsFatal ==
    /\ [][\A a \in Readers :
              (pc[a] = "assign" /\ pc'[a] # pc[a] /\ ret[a] # None
                   /\ ret[a][1] > 1 /\ lock["w"] # WRITELOCK_ID) =>
                  /\ exc'[a] # "none"
                  /\ pc'[a] # Stmt(a).next]_vars
    /\ [][\A p \in Procs :
              (At(p, "decr") /\ pc'[p] # pc[p]
                   /\ (readcount' < 0 \/ writecount' < 0)) =>
                  exc'[p] # "none"]_vars

\* C27: an exit sequence whose acquire of the counter mutex times out ends
\* with LockException and without the decrement, and what it leaves is
\* reclaimed by expiry: once every call has returned and every lock key has
\* expired or been released, both counters are 0.
C27_LeakReclaimed ==
    /\ [][\A p \in Procs :
              (pc[p] \in ExitSeq(p) /\ At(p, "acquire") /\ exc'[p] = "LockException"
                   /\ exc[p] # "LockException") =>
                  /\ pc'[p] = "done"
                  /\ readcount' = readcount /\ writecount' = writecount]_vars
    /\ []((Quiescent /\ \A k \in Keys : lock[k] = Absent) =>
              (readcount = 0 /\ writecount = 0))

\* C28: once a process terminated by SIGTERM has ended, no lock key holds a
\* value with the pid prefix of that process.
C28_OwnLocksReaped ==
    \A p \in Procs :
        (exc[p] = "SystemExit" /\ pc[p] = "done") => SweptBy(p) = {}

\* C29: in a run where a first reader was aborted between its increment and
\* its acquisition of w and rolled back, a reader is inside its critical
\* section only while w holds the readers' token, and never together with a
\* writer.
C29_ExclusionAfterAbort ==
    (\E q \in Readers : exc[q] \in {"LockException", "SystemExit"}) =>
        \A a \in Readers : InRead(a) =>
            /\ lock["w"] = WRITELOCK_ID
            /\ \A b \in Writers : pc[b] # "cs"

\* C30: when only the gate w runs down (every critical section being
\* shorter than the timeout), a reader that is registered and inside its
\* critical section finds w present under the readers' token, and no writer
\* is inside its own.
C30_LongEpochExclusion ==
    \A a \in Readers : (pc[a] = "cs" /\ entries[a] = 1) =>
        /\ ttl["w"] # TTL_MISSING
        /\ lock["w"] = WRITELOCK_ID
        /\ \A b \in Writers : pc[b] # "cs"

\* the call q was made from the critical section of p
Nested(q, p) == caller[q] = <<p>>

C31_PollKeepsExpiry ==
    /\ [][\A k \in Keys :
              (ttl'[k] # ttl[k] /\ lock' = lock /\ pc' = pc /\ elapsed' = elapsed) =>
                  ttl[k] = TTL_NONE]_vars
    /\ [][\A k \in Keys : ttl[k] = 0 => ttl'[k] \in {0, TTL_MISSING}]_vars

\* C32: with no lock expiring and no call aborted, the increment of a reader
\* returns 1 only while w is absent, and w is still absent while that reader
\* binds the reply and when it comes to its acquisition of w: the first
\* setnx succeeds, no reader polls w in vain.
C32_FirstReaderFindsGateFree ==
    /\ [][\A a \in Readers :
              (pc[a] = "incr" /\ pc'[a] # pc[a] /\ readcount' = 1) =>
                  lock["w"] = Absent]_vars
    /\ [](\A a \in Readers :
              ((pc[a] = "assign" /\ ret[a] = <<1>>) \/ pc[a] = "acq_w") =>
                  /\ lock["w"] = Absent
                  /\ ~ENABLED PollFail(a))
\* a first reader is at its acquisition of w, holding mutex3, r and mutex1,
\* while a writer that has registered itself polls r
C32_Witness ==
    \E a \in Readers, b \in Writers :
        /\ pc[a] = "acq_w"
        /\ lock["mutex3"] = Identifier(a)
        /\ lock["r"] = Identifier(a)
        /\ lock["mutex1"] = Identifier(a)
        /\ pc[b] = "acq_r" /\ writecount = 1

\* acquire_lock, lines 219-226: the process polls a key that is taken
Blocked(p) == At(p, "acquire") /\ lock[Stmt(p).key] # Absent

\* C33: with every process calling once, no lock expiring and no nested
\* call, in every state with an unfinished call some unfinished call is not
\* polling a taken key; and under fair scheduling every call that has
\* started returns, normally and with its increment undone.
C33_DeadlockFree ==
    /\ []((\E p \in Procs : Running(p)) =>
              \E p \in Procs : Running(p) /\ ~Blocked(p))
    /\ \A p \in Procs : Running(p) ~> (pc[p] = "done" /\ exc[p] = "none" /\ entries[p] = 0)
\* all four calls are under way and all but one reader, which is inside its
\* critical section, poll a taken key
C33_Witness ==
    /\ \A p \in Procs : Running(p)
    /\ \E a \in Readers :
          /\ pc[a] = "cs"
          /\ \A p \in Procs \ {a} : Blocked(p)

\* C34: in every run without termination, each step the decorators of
\* locking.py take (a release, an acquire timing out, f returning or
\* raising; the other statements are the same text) is the step the
\* decorators of h5pyswmr.py take from the same state: same command, same
\* key and token, same state of the store, same exception in flight and
\* same statement to go on with.
C34_SameSteps ==
    [][\A p \in Procs :
          /\ Release(p) => Release_h5pyswmr(p)
          /\ Timeout(p) => Timeout_h5pyswmr(p)
          /\ CriticalSection(p) => CriticalSection_h5pyswmr(p)
          /\ CriticalSectionRaises(p) => CriticalSectionRaises_h5pyswmr(p)]_vars

TypeOK ==
    /\ \A k \in Keys : lock[k] \in {Absent, WRITELOCK_ID, READLOCK_ID} \cup {Identifier(p) : p \in Procs}
    /\ \A p \in Procs : pc[p] \in DOMAIN Code(p) \cup {"idle", "done"}
    /\ \A p \in Procs : entries[p] \in {0, 1}
====
